---- MODULE Spec2Model ----
(***************************************************************************)
(* A model of dephealth's scoring engine: the module-scoped scoring        *)
(* configuration of src/src/scoring.ts (DEFAULT_SCORING_CONFIG,            *)
(* currentConfig, set/get/resetScoringConfig), the five scoring functions  *)
(* that read it, and the boosted aggregate of src/src/analyzer.ts; the     *)
(* resolution of the tokens (getConfig); the seven metrics of a package    *)
(* (buildPackageData, calculateAllScores); and a run of the command:       *)
(* the booster file of src/src/config.ts, main of src/src/cli.ts and the   *)
(* pool of tasks of analyzeDependencies.                                   *)
(*                                                                         *)
(* JavaScript objects live in a heap of addressed group objects, so that   *)
(* the sharing created by the object spreads ({ ...x }) is part of the     *)
(* state.  JavaScript numbers are fixed-point thousandths together with    *)
(* NaN, +/-Infinity and undefined; a product or quotient is rounded to the *)
(* nearest thousandth.                                                     *)
(***************************************************************************)
EXTENDS Integers, Sequences, FiniteSets, TLC

\* ------------------------------------------------------------------------
\* JavaScript numbers
\* ------------------------------------------------------------------------

\* One unit of the fixed-point representation is 1/Unit.
Unit == 10 ^ 3

N(v) == [k |-> "num", v |-> v]
NaN == [k |-> "nan", v |-> 0]
Undefined == [k |-> "undef", v |-> 0]
Inf(s) == [k |-> "inf", v |-> s]

\* The integer i as a number.
IntNum(i) == N(i * Unit)

\* n / d rounded to the nearest integer (halves upwards), d > 0.
RoundDiv(n, d) == IF 2 * (n % d) >= d THEN (n \div d) + 1 ELSE n \div d

Sign(i) == IF i > 0 THEN 1 ELSE IF i < 0 THEN -1 ELSE 0

\* ToNumber: undefined becomes NaN in every arithmetic operation.
ToNumber(x) == IF x.k = "undef" THEN NaN ELSE x

IsNaN(x) == ToNumber(x).k = "nan"

\* a <= b for two numbers neither of which is NaN.
LeqNum(a, b) ==
    \/ a.k = "inf" /\ a.v = -1
    \/ b.k = "inf" /\ b.v = 1
    \/ a.k = "num" /\ b.k = "num" /\ a.v <= b.v

\* The comparison operators of JavaScript: false when either side is NaN.
Leq(x, y) == LET a == ToNumber(x)  b == ToNumber(y)
             IN  a.k # "nan" /\ b.k # "nan" /\ LeqNum(a, b)
Lt(x, y) == LET a == ToNumber(x)  b == ToNumber(y)
            IN  a.k # "nan" /\ b.k # "nan" /\ ~LeqNum(b, a)
Geq(x, y) == Leq(y, x)
Gt(x, y) == Lt(y, x)

Neg(x) == LET a == ToNumber(x)
          IN  IF a.k = "nan" THEN NaN
              ELSE IF a.k = "inf" THEN Inf(-a.v)
              ELSE N(-a.v)

Add(x, y) ==
    LET a == ToNumber(x)  b == ToNumber(y)
    IN  IF a.k = "nan" \/ b.k = "nan" THEN NaN
        ELSE IF a.k = "inf" /\ b.k = "inf"
             THEN (IF a.v = b.v THEN a ELSE NaN)
        ELSE IF a.k = "inf" THEN a
        ELSE IF b.k = "inf" THEN b
        ELSE N(a.v + b.v)

Sub(x, y) == Add(x, Neg(y))

Mul(x, y) ==
    LET a == ToNumber(x)  b == ToNumber(y)
    IN  IF a.k = "nan" \/ b.k = "nan" THEN NaN
        ELSE IF a.k = "inf" \/ b.k = "inf"
             THEN (IF Sign(a.v) * Sign(b.v) = 0 THEN NaN
                   ELSE Inf(Sign(a.v) * Sign(b.v)))
        ELSE N(RoundDiv(a.v * b.v, Unit))

\* n / d in thousandths for n and d in thousandths, d > 0; a whole d is
\* divided by directly, which keeps the intermediate product small.
Quotient(n, d) ==
    IF d % Unit = 0 THEN RoundDiv(n, d \div Unit) ELSE RoundDiv(n * Unit, d)

Div(x, y) ==
    LET a == ToNumber(x)  b == ToNumber(y)
    IN  IF a.k = "nan" \/ b.k = "nan" THEN NaN
        ELSE IF a.k = "inf"
             THEN (IF b.k = "inf" THEN NaN
                   ELSE Inf(a.v * (IF b.v < 0 THEN -1 ELSE 1)))
        ELSE IF b.k = "inf" THEN N(0)
        ELSE IF b.v = 0
             THEN (IF a.v = 0 THEN NaN ELSE Inf(Sign(a.v)))
        ELSE IF b.v > 0 THEN N(Quotient(a.v, b.v))
        ELSE N(Quotient(-a.v, -b.v))

\* Math.min and Math.max: NaN when either argument is NaN.
MathMin(x, y) ==
    LET a == ToNumber(x)  b == ToNumber(y)
    IN  IF a.k = "nan" \/ b.k = "nan" THEN NaN
        ELSE IF LeqNum(a, b) THEN a ELSE b

MathMax(x, y) ==
    LET a == ToNumber(x)  b == ToNumber(y)
    IN  IF a.k = "nan" \/ b.k = "nan" THEN NaN
        ELSE IF LeqNum(a, b) THEN b ELSE a

\* Math.round: the nearest integer, halves upwards; NaN and the infinities
\* are returned unchanged.
MathRound(x) ==
    LET a == ToNumber(x)
    IN  IF a.k # "num" THEN a ELSE N(RoundDiv(a.v, Unit) * Unit)

\* Math.pow(base, n) for an integer exponent n >= 1.
RECURSIVE MathPow(_, _)
MathPow(base, n) ==
    IF n <= 1 THEN ToNumber(base) ELSE Mul(MathPow(base, n - 1), base)

\* ------------------------------------------------------------------------
\* The scoring configuration (ScoringConfig) and its default
\* ------------------------------------------------------------------------

Groups == {"weights", "constants", "penalties"}

WeightFields == {"lag", "vuln", "health", "activity"}
ConstantFields ==
    {"maxStars", "minStarsForIssueRatio", "maxIssueRatio", "activityThresholdDays"}
PenaltyFields ==
    {"majorUpdate", "minorUpdate", "patchUpdate",
     "criticalVuln", "highVuln", "moderateVuln"}

Fields(g) ==
    CASE g = "weights" -> WeightFields
      [] g = "constants" -> ConstantFields
      [] g = "penalties" -> PenaltyFields

\* The object literal of DEFAULT_SCORING_CONFIG, group by group.
DefaultWeights ==
    [lag |-> N(250), vuln |-> N(350), health |-> N(250), activity |-> N(150)]
DefaultConstants ==
    [maxStars |-> IntNum(100000), minStarsForIssueRatio |-> IntNum(10),
     maxIssueRatio |-> N(500), activityThresholdDays |-> IntNum(365)]
DefaultPenalties ==
    [majorUpdate |-> N(500), minorUpdate |-> N(100), patchUpdate |-> N(20),
     criticalVuln |-> N(600), highVuln |-> N(300), moderateVuln |-> N(100)]

DefaultLiteral ==
    [weights |-> DefaultWeights, constants |-> DefaultConstants,
     penalties |-> DefaultPenalties]

\* The exported constant: an object whose three properties refer to the
\* three group objects the literal allocates (heap addresses 1, 2, 3).
DEFAULT_SCORING_CONFIG == [weights |-> 1, constants |-> 2, penalties |-> 3]

DefaultAddrs == {DEFAULT_SCORING_CONFIG[g] : g \in Groups}

InitialHeap == [a \in DefaultAddrs |->
    CASE a = 1 -> DefaultWeights
      [] a = 2 -> DefaultConstants
      [] a = 3 -> DefaultPenalties]

\* ------------------------------------------------------------------------
\* State
\* ------------------------------------------------------------------------

VARIABLES
    heap,           \* address -> group object (field -> number)
    currentConfig,  \* the module-scoped let: group -> address
    returned,       \* the object the caller holds from getScoringConfig
    call,           \* the call the caller has made and not yet left
    result,         \* the value that call returned
    report          \* the rows the display call not yet left has printed

vars == <<heap, currentConfig, returned, call, result, report>>

Idle == [op |-> "idle"]
NoRefs == [weights |-> 0, constants |-> 0, penalties |-> 0]

\* An object spread { ...base, ...part } of two top-level objects: the
\* properties of part replace those of base, property by property.
Spread(base, part) ==
    [g \in Groups |-> IF g \in DOMAIN part THEN part[g] ELSE base[g]]

\* What a deep read of a top-level object sees.
Deep(refs, h) == [g \in Groups |-> h[refs[g]]]

\* The configuration getScoringConfig's result shows, read deeply.
ConfigSeen == Deep(currentConfig, heap)

\* Addresses still referenced; the rest of the heap is garbage.
Live(cc, ret) ==
    DefaultAddrs \cup {cc[g] : g \in Groups}
        \cup (IF ret = NoRefs THEN {} ELSE {ret[g] : g \in Groups})

Collect(h, cc, ret) == [a \in (DOMAIN h) \cap Live(cc, ret) |-> h[a]]

GroupIndex(g) ==
    CASE g = "weights" -> 1 [] g = "constants" -> 2 [] g = "penalties" -> 3

\* Where new group objects are allocated.  An object literal passed to
\* setScoringConfig is referenced by currentConfig alone until the next
\* set or reset, and a group object the caller creates for the object it
\* was returned is referenced by that object alone, so one address per
\* group is enough for each, and no live object is ever overwritten.
SetAddr(g) == 3 + GroupIndex(g)
CallerAddr(g) == 6 + GroupIndex(g)

\* The addresses given to the group objects of the literal passed to
\* setScoringConfig.
AllocRefs(part) == [g \in DOMAIN part |-> SetAddr(g)]

\* The heap after the caller's literal has been allocated at refs.
AllocHeap(h, part, refs) ==
    [a \in (DOMAIN h) \cup {refs[g] : g \in DOMAIN part} |->
        IF \E g \in DOMAIN part : refs[g] = a
        THEN part[CHOOSE g \in DOMAIN part : refs[g] = a]
        ELSE h[a]]

\* ------------------------------------------------------------------------
\* What callers pass in
\* ------------------------------------------------------------------------

\* A group object literal that names only the fields of part; reading any
\* other field of it gives undefined.
Obj(g, part) ==
    [f \in Fields(g) |-> IF f \in DOMAIN part THEN part[f] ELSE Undefined]

\* Partial<ScoringConfig> values: the groups a caller's literal names.
EmptyPartial == [g \in {} |-> Undefined]
OnlyVuln == [weights |-> Obj("weights", [vuln |-> N(900)])]
ReadmeWeights ==
    [weights |-> [lag |-> N(200), vuln |-> N(400), health |-> N(250),
                  activity |-> N(150)]]
ReadmePenalties ==
    [penalties |-> Obj("penalties",
        [criticalVuln |-> N(800), highVuln |-> N(500), moderateVuln |-> N(200)])]
OnesWeights ==
    [weights |-> [lag |-> N(Unit), vuln |-> N(Unit), health |-> N(0),
                  activity |-> N(0)]]
TwosWeights ==
    [weights |-> [lag |-> N(2 * Unit), vuln |-> N(2 * Unit), health |-> N(0),
                  activity |-> N(0)]]
ZeroWeights ==
    [weights |-> [lag |-> N(0), vuln |-> N(0), health |-> N(0),
                  activity |-> N(0)]]

Partials ==
    {EmptyPartial, OnlyVuln, ReadmeWeights, ReadmePenalties, OnesWeights,
     TwosWeights, ZeroWeights}

\* The optional config argument of a scoring call: absent, or a partial.
NoConfig == [given |-> FALSE, part |-> EmptyPartial]
Given(p) == [given |-> TRUE, part |-> p]
Overrides == {NoConfig} \cup {Given(p) : p \in Partials}

\* What a caller writes into a group object it got from getScoringConfig.
WrittenFields(g) ==
    CASE g = "weights" -> {"lag"}
      [] g = "constants" -> {"activityThresholdDays"}
      [] g = "penalties" -> {"majorUpdate"}
WrittenValues(g) ==
    CASE g = "weights" -> {N(900)}
      [] g = "constants" -> {IntNum(180)}
      [] g = "penalties" -> {N(900)}
\* The object a caller assigns as a whole group of it: {}.
WrittenGroup(g) == Obj(g, EmptyPartial)

\* ------------------------------------------------------------------------
\* Configuration management
\* ------------------------------------------------------------------------

Init ==
    /\ heap = InitialHeap
    /\ currentConfig = Spread(DEFAULT_SCORING_CONFIG, EmptyPartial)
    /\ returned = NoRefs
    /\ call = Idle
    /\ result = Undefined
    /\ report = <<>>

\* currentConfig = { ...DEFAULT_SCORING_CONFIG, ...config }
setScoringConfig(config) ==
    /\ call = Idle
    /\ LET refs == AllocRefs(config)
           cc == Spread(DEFAULT_SCORING_CONFIG, refs)
       IN  /\ currentConfig' = cc
           /\ heap' = Collect(AllocHeap(heap, config, refs), cc, NoRefs)
    /\ call' = [op |-> "setScoringConfig", config |-> config]
    /\ UNCHANGED <<returned, result, report>>

\* return { ...currentConfig }
getScoringConfig ==
    /\ call = Idle
    /\ returned' = Spread(currentConfig, EmptyPartial)
    /\ call' = [op |-> "getScoringConfig"]
    /\ UNCHANGED <<heap, currentConfig, result, report>>

\* A reset that forgets the defaults: currentConfig = { ...currentConfig }.
resetScoringConfig_KeepsCurrent ==
    /\ call = Idle
    /\ currentConfig' = Spread(currentConfig, EmptyPartial)
    /\ call' = [op |-> "resetScoringConfig"]
    /\ UNCHANGED <<heap, returned, result, report>>

\* currentConfig = { ...DEFAULT_SCORING_CONFIG }; the objects the previous
\* configuration referred to stay in the heap until they are collected.
resetScoringConfig ==
    /\ call = Idle
    /\ currentConfig' = Spread(DEFAULT_SCORING_CONFIG, EmptyPartial)
    /\ call' = [op |-> "resetScoringConfig"]
    /\ UNCHANGED <<heap, returned, result, report>>

\* The caller assigns to a field of a group of the object it was returned:
\* returned.g.f = v.
CallerWritesField(g, f, v) ==
    /\ returned # NoRefs
    /\ heap' = [heap EXCEPT ![returned[g]][f] = v]
    /\ UNCHANGED <<currentConfig, returned, call, result, report>>

\* The caller assigns a whole group of the object it was returned:
\* returned.g = obj, obj a new object.
CallerWritesGroup(g, obj) ==
    /\ returned # NoRefs
    /\ LET a == CallerAddr(g)
           ret == [returned EXCEPT ![g] = a]
       IN  /\ returned' = ret
           /\ heap' = Collect([x \in (DOMAIN heap) \cup {a} |->
                                 IF x = a THEN obj ELSE heap[x]],
                              currentConfig, ret)
    /\ UNCHANGED <<currentConfig, call, result, report>>

\* The caller leaves the call and drops what it returned.
Return ==
    /\ call # Idle
    /\ call' = Idle
    /\ returned' = NoRefs
    /\ result' = Undefined
    /\ report' = <<>>
    /\ heap' = Collect(heap, currentConfig, NoRefs)
    /\ UNCHANGED currentConfig

\* ------------------------------------------------------------------------
\* Scoring functions
\* ------------------------------------------------------------------------

\* const cfg = config ? { ...currentConfig, ...config } : currentConfig,
\* read deeply: a group the override names is the override's object, whole.
MergedConfig(config) ==
    IF config.given
    THEN [g \in Groups |->
            IF g \in DOMAIN config.part THEN config.part[g]
            ELSE heap[currentConfig[g]]]
    ELSE Deep(currentConfig, heap)

\* Version strings: "", "unknown", a text without a digit, or one to three
\* dot-separated numbers ("2", "1.2", "1.2.3").
EmptyString == [s |-> "empty", n |-> <<>>]
UnknownVersion == [s |-> "unknown", n |-> <<>>]
TextVersion == [s |-> "text", n |-> <<>>]
Version(n) == [s |-> "digits", n |-> n]

\* semver.coerce: null for a string without a number, else the version the
\* leading numbers give, missing components being 0.
SemverCoerce(v) ==
    IF v.s # "digits"
    THEN [ok |-> FALSE, major |-> 0, minor |-> 0, patch |-> 0]
    ELSE [ok |-> TRUE,
          major |-> v.n[1],
          minor |-> IF Len(v.n) >= 2 THEN v.n[2] ELSE 0,
          patch |-> IF Len(v.n) >= 3 THEN v.n[3] ELSE 0]

\* The three penalty terms calcLagScore adds up, for two coerced versions.
LagPenalties(current, latest, config) ==
    LET cfg == MergedConfig(config)
        cur == SemverCoerce(current)
        lat == SemverCoerce(latest)
        diff == [major |-> lat.major - cur.major,
                 minor |-> lat.minor - cur.minor,
                 patch |-> lat.patch - cur.patch]
    IN  [majorPenalty |->
            IF diff.major > 0
            THEN MathPow(cfg.penalties.majorUpdate, diff.major)
            ELSE N(0),
         minorPenalty |->
            MathMin(Mul(IntNum(diff.minor), cfg.penalties.minorUpdate), N(300)),
         patchPenalty |->
            MathMin(Mul(IntNum(diff.patch), cfg.penalties.patchUpdate), N(100))]

\* calcLagScore without the guard "if (!cur || !lat) return 1".
calcLagScore_NoCoerceGuard(current, latest, config) ==
    LET p == LagPenalties(current, latest, config)
        totalPenalty ==
            MathMin(Add(Add(p.majorPenalty, p.minorPenalty), p.patchPenalty),
                    N(Unit))
    IN  IF latest.s = "empty" \/ latest.s = "unknown" THEN N(Unit)
        ELSE Sub(N(Unit), totalPenalty)

\* calcLagScore with the major penalty left out of the total.
calcLagScore_NoMajorPenalty(current, latest, config) ==
    LET cur == SemverCoerce(current)
        lat == SemverCoerce(latest)
        p == LagPenalties(current, latest, config)
        totalPenalty == MathMin(Add(p.minorPenalty, p.patchPenalty), N(Unit))
    IN  IF latest.s = "empty" \/ latest.s = "unknown" THEN N(Unit)
        ELSE IF ~cur.ok \/ ~lat.ok THEN N(Unit)
        ELSE Sub(N(Unit), totalPenalty)

calcLagScore(current, latest, config) ==
    LET cur == SemverCoerce(current)
        lat == SemverCoerce(latest)
        p == LagPenalties(current, latest, config)
        totalPenalty ==
            MathMin(Add(Add(p.majorPenalty, p.minorPenalty), p.patchPenalty),
                    N(Unit))
    IN  IF latest.s = "empty" \/ latest.s = "unknown" THEN N(Unit)
        ELSE IF ~cur.ok \/ ~lat.ok THEN N(Unit)
        ELSE Sub(N(Unit), totalPenalty)

\* The variant of calcVulnScore without a configuration, its penalties
\* written into the code: Math.pow(0.8, sev.critical), 0.3, 0.1.
calcVulnScore_FixedPenalties(sev, config) ==
    LET criticalPenalty ==
            IF sev.critical > 0 THEN MathPow(N(800), sev.critical) ELSE N(0)
        highPenalty == MathMin(Mul(IntNum(sev.high), N(300)), N(500))
        moderatePenalty == MathMin(Mul(IntNum(sev.moderate), N(100)), N(200))
        totalPenalty ==
            MathMin(Add(Add(criticalPenalty, highPenalty), moderatePenalty),
                    N(Unit))
    IN  Sub(N(Unit), totalPenalty)

calcVulnScore(sev, config) ==
    LET cfg == MergedConfig(config)
        criticalPenalty ==
            IF sev.critical > 0
            THEN MathPow(cfg.penalties.criticalVuln, sev.critical)
            ELSE N(0)
        highPenalty ==
            MathMin(Mul(IntNum(sev.high), cfg.penalties.highVuln), N(500))
        moderatePenalty ==
            MathMin(Mul(IntNum(sev.moderate), cfg.penalties.moderateVuln), N(200))
        totalPenalty ==
            MathMin(Add(Add(criticalPenalty, highPenalty), moderatePenalty),
                    N(Unit))
    IN  Sub(N(Unit), totalPenalty)

\* Math.log10 of the integers the model's inputs produce, in thousandths.
Log10Table(n) ==
    CASE n = 1 -> 0
      [] n = 10 -> 1000
      [] n = 41 -> 1613
      [] n = 51 -> 1708
      [] n = 81 -> 1908
      [] n = 100 -> 2000
      [] n = 1001 -> 3000
      [] n = 10000 -> 4000
      [] n = 100001 -> 5000
      [] n = 200001 -> 5301

MathLog10(x) ==
    LET a == ToNumber(x)
    IN  IF a.k = "nan" THEN NaN
        ELSE IF a.k = "inf" THEN (IF a.v = 1 THEN a ELSE NaN)
        ELSE IF a.v < 0 THEN NaN
        ELSE IF a.v = 0 THEN Inf(-1)
        ELSE N(Log10Table(a.v \div Unit))

calcCommunityScore(stars, openIssues, config) ==
    LET cfg == MergedConfig(config)
        popularityScore ==
            MathMin(Div(MathLog10(Add(IntNum(stars), IntNum(1))),
                        MathLog10(Add(cfg.constants.maxStars, IntNum(1)))),
                    N(Unit))
        issueRatio == Div(IntNum(openIssues), IntNum(stars))
        issueRatioScore ==
            IF Geq(IntNum(stars), cfg.constants.minStarsForIssueRatio)
            THEN MathMax(N(0),
                     Sub(N(Unit), Div(issueRatio, cfg.constants.maxIssueRatio)))
            ELSE IF openIssues > 0
            THEN MathMax(N(0),
                     Sub(N(Unit),
                         Div(IntNum(openIssues),
                             cfg.constants.minStarsForIssueRatio)))
            ELSE N(Unit)
    IN  Add(Mul(popularityScore, N(600)), Mul(issueRatioScore, N(400)))

\* Timestamps: "", a string Date cannot parse, or a date that lies age days
\* before Date.now() (after it when age is negative).
InvalidDate == [s |-> "invalid", age |-> 0]
NoDate == [s |-> "empty", age |-> 0]
DateAged(d) == [s |-> "date", age |-> d]

\* Math.exp of the arguments the model's inputs produce, in thousandths.
ExpTable(x) ==
    CASE x = -1507 -> 222
      [] x = -1000 -> 368
      [] x = -510 -> 600
      [] x = -507 -> 602
      [] x = -500 -> 607
      [] x = -331 -> 718
      [] x = -327 -> 721
      [] x = -17 -> 983
      [] x = -4 -> 996
      [] x = -3 -> 997
      [] x = 0 -> 1000
      [] x = 1000 -> 2718

MathExp(x) ==
    LET a == ToNumber(x)
    IN  IF a.k = "nan" THEN NaN
        ELSE IF a.k = "inf" THEN (IF a.v = 1 THEN a ELSE N(0))
        ELSE N(ExpTable(a.v))

calcActivityScore(lastCommit, config) ==
    LET cfg == MergedConfig(config)
        days == IF lastCommit.s = "invalid" THEN NaN ELSE IntNum(lastCommit.age)
        threshold == cfg.constants.activityThresholdDays
    IN  IF lastCommit.s = "empty" THEN N(0)
        ELSE IF Leq(days, IntNum(30))
        THEN MathExp(Div(Neg(days), IntNum(30)))
        ELSE IF Leq(days, IntNum(90))
        THEN Mul(N(800), MathExp(Div(Neg(Sub(days, IntNum(30))), IntNum(60))))
        ELSE IF Leq(days, threshold)
        THEN Mul(N(500), MathExp(Div(Neg(Sub(days, IntNum(90))), IntNum(275))))
        ELSE Mul(N(100), MathExp(Div(Neg(Sub(days, threshold)), IntNum(365))))

\* Math.round(Math.max(0, Math.min(100, value * 100)))
Percent(value) ==
    MathRound(MathMax(N(0), MathMin(IntNum(100), Mul(value, IntNum(100)))))

\* calcFinalScore with the community term left out of the weighted sum.
calcFinalScore_NoHealth(params, config) ==
    LET cfg == MergedConfig(config)
        lagScore == calcLagScore(params.current, params.latest, config)
        vulnScore == calcVulnScore(params.severity, config)
        activityScore == calcActivityScore(params.lastCommit, config)
        value ==
            Add(Add(Mul(cfg.weights.lag, lagScore),
                    Mul(cfg.weights.vuln, vulnScore)),
                Mul(cfg.weights.activity, activityScore))
    IN  Percent(value)

calcFinalScore(params, config) ==
    LET cfg == MergedConfig(config)
        lagScore == calcLagScore(params.current, params.latest, config)
        vulnScore == calcVulnScore(params.severity, config)
        communityScore ==
            calcCommunityScore(params.stars, params.openIssues, config)
        activityScore == calcActivityScore(params.lastCommit, config)
        value ==
            Add(Add(Add(Mul(cfg.weights.lag, lagScore),
                        Mul(cfg.weights.vuln, vulnScore)),
                    Mul(cfg.weights.health, communityScore)),
                Mul(cfg.weights.activity, activityScore))
    IN  Percent(value)

\* A debugScore whose finalScore is the weighted sum itself, neither scaled
\* to 0-100 nor clamped nor rounded.
debugScore_RawFinalScore(params, config) ==
    LET cfg == MergedConfig(config)
        lagScore == calcLagScore(params.current, params.latest, config)
        vulnScore == calcVulnScore(params.severity, config)
        communityScore ==
            calcCommunityScore(params.stars, params.openIssues, config)
        activityScore == calcActivityScore(params.lastCommit, config)
        breakdown ==
            [lag |-> Mul(cfg.weights.lag, lagScore),
             vuln |-> Mul(cfg.weights.vuln, vulnScore),
             health |-> Mul(cfg.weights.health, communityScore),
             activity |-> Mul(cfg.weights.activity, activityScore)]
    IN  [lagScore |-> lagScore,
         vulnScore |-> vulnScore,
         communityScore |-> communityScore,
         activityScore |-> activityScore,
         finalScore |->
            Add(Add(Add(breakdown.lag, breakdown.vuln), breakdown.health),
                breakdown.activity),
         breakdown |-> breakdown]

debugScore(params, config) ==
    LET cfg == MergedConfig(config)
        lagScore == calcLagScore(params.current, params.latest, config)
        vulnScore == calcVulnScore(params.severity, config)
        communityScore ==
            calcCommunityScore(params.stars, params.openIssues, config)
        activityScore == calcActivityScore(params.lastCommit, config)
        breakdown ==
            [lag |-> Mul(cfg.weights.lag, lagScore),
             vuln |-> Mul(cfg.weights.vuln, vulnScore),
             health |-> Mul(cfg.weights.health, communityScore),
             activity |-> Mul(cfg.weights.activity, activityScore)]
        finalScore ==
            Add(Add(Add(breakdown.lag, breakdown.vuln), breakdown.health),
                breakdown.activity)
    IN  [lagScore |-> lagScore,
         vulnScore |-> vulnScore,
         communityScore |-> communityScore,
         activityScore |-> activityScore,
         finalScore |-> Percent(finalScore),
         breakdown |-> breakdown]

\* ------------------------------------------------------------------------
\* Scoring calls
\* ------------------------------------------------------------------------

\* Bounds of the inputs.
MaxVer == 2
MaxSev == 2

VersionStrings ==
    {EmptyString, UnknownVersion, TextVersion}
        \cup {Version(n) : n \in UNION {[1..l -> 0..MaxVer] : l \in 1..3}}

Severities == [critical : 0..MaxSev, high : 0..MaxSev, moderate : 0..MaxSev]

StarCounts == {0, 9, 99, 1000, 100000, 200000}
IssueCounts == {0, 5, 10, 1000}
LastCommits ==
    {NoDate, InvalidDate}
        \cup {DateAged(d) :
                d \in {-30, 0, 15, 30, 31, 60, 90, 91, 180, 181, 365, 366, 730}}

\* The records the aggregate is called with.
ScoringParams ==
    [current : {Version(<<1, 0, 0>>)},
     latest : {Version(<<1, 0, 0>>), Version(<<2, 0, 0>>), UnknownVersion},
     severity : {[critical |-> 0, high |-> 0, moderate |-> 0],
                 [critical |-> 1, high |-> 0, moderate |-> 0]},
     stars : {0, 1000, 100000},
     openIssues : {0, 10},
     lastCommit : {NoDate, InvalidDate, DateAged(0), DateAged(30),
                   DateAged(366)}]

CallLagScore(current, latest, config) ==
    /\ call = Idle
    /\ result' = calcLagScore(current, latest, config)
    /\ call' = [op |-> "calcLagScore", current |-> current, latest |-> latest,
                config |-> config]
    /\ UNCHANGED <<heap, currentConfig, returned, report>>

\* A calcVulnScore that computes with the penalties it read when the module
\* was loaded instead of currentConfig.
CallVulnScore_LoadTimeConfig(sev, config) ==
    /\ call = Idle
    /\ result' = IF config.given THEN calcVulnScore(sev, config)
                 ELSE calcVulnScore(sev, [given |-> TRUE, part |-> DefaultLiteral])
    /\ call' = [op |-> "calcVulnScore", sev |-> sev, config |-> config]
    /\ UNCHANGED <<heap, currentConfig, returned, report>>

CallVulnScore(sev, config) ==
    /\ call = Idle
    /\ result' = calcVulnScore(sev, config)
    /\ call' = [op |-> "calcVulnScore", sev |-> sev, config |-> config]
    /\ UNCHANGED <<heap, currentConfig, returned, report>>

CallCommunityScore(stars, openIssues, config) ==
    /\ call = Idle
    /\ result' = calcCommunityScore(stars, openIssues, config)
    /\ call' = [op |-> "calcCommunityScore", stars |-> stars,
                openIssues |-> openIssues, config |-> config]
    /\ UNCHANGED <<heap, currentConfig, returned, report>>

CallActivityScore(lastCommit, config) ==
    /\ call = Idle
    /\ result' = calcActivityScore(lastCommit, config)
    /\ call' = [op |-> "calcActivityScore", lastCommit |-> lastCommit,
                config |-> config]
    /\ UNCHANGED <<heap, currentConfig, returned, report>>

\* A final score that installs the merged configuration instead of keeping
\* it in a local: currentConfig = { ...currentConfig, ...config }.
CallFinalScore_StoresMerged(params, config) ==
    /\ call = Idle
    /\ result' = calcFinalScore(params, config)
    /\ call' = [op |-> "calcFinalScore", params |-> params, config |-> config]
    /\ LET refs == AllocRefs(config.part)
           cc == Spread(currentConfig, refs)
       IN  /\ currentConfig' = cc
           /\ heap' = Collect(AllocHeap(heap, config.part, refs), cc, NoRefs)
    /\ UNCHANGED <<returned, report>>

CallFinalScore(params, config) ==
    /\ call = Idle
    /\ result' = calcFinalScore(params, config)
    /\ call' = [op |-> "calcFinalScore", params |-> params, config |-> config]
    /\ UNCHANGED <<heap, currentConfig, returned, report>>

CallDebugScore(params, config) ==
    /\ call = Idle
    /\ result' = debugScore(params, config)
    /\ call' = [op |-> "debugScore", params |-> params, config |-> config]
    /\ UNCHANGED <<heap, currentConfig, returned, report>>

ScoringOps ==
    {"calcLagScore", "calcVulnScore", "calcCommunityScore",
     "calcActivityScore", "calcFinalScore", "debugScore"}

\* Scoring calls over the version strings and severity counts VS and SS.
ScoringCalls(VS, SS) ==
    /\ call = Idle
    /\ \/ \E current \in VS : \E latest \in VS : \E config \in Overrides :
             CallLagScore(current, latest, config)
       \/ \E sev \in SS : \E config \in Overrides : CallVulnScore(sev, config)
       \/ \E stars \in StarCounts : \E openIssues \in IssueCounts :
             \E config \in Overrides :
                CallCommunityScore(stars, openIssues, config)
       \/ \E lastCommit \in LastCommits : \E config \in Overrides :
             CallActivityScore(lastCommit, config)
       \/ \E params \in ScoringParams : \E config \in Overrides :
             CallFinalScore(params, config)
       \/ \E params \in ScoringParams : \E config \in Overrides :
             CallDebugScore(params, config)

\* ------------------------------------------------------------------------
\* The report of the analyzer: display and its boosted overall score
\* ------------------------------------------------------------------------

\* The seven metrics, in the order the code adds them up.
MetricOrder ==
    <<"maturity", "updateFrequency", "deprecation", "dependency", "download",
      "vulnerability", "issues">>
Metrics == {MetricOrder[i] : i \in DOMAIN MetricOrder}

defaultBoosters ==
    [maturity |-> IntNum(2), updateFrequency |-> IntNum(1),
     deprecation |-> IntNum(4), dependency |-> IntNum(1),
     download |-> IntNum(1), vulnerability |-> IntNum(2),
     issues |-> IntNum(1)]

\* The optional boosters argument: absent, or an object in which a metric
\* that is not named reads as undefined.
NoBoosters == [given |-> FALSE, vals |-> [m \in Metrics |-> Undefined]]
Boosters(named) ==
    [given |-> TRUE,
     vals |-> [m \in Metrics |->
                 IF m \in DOMAIN named THEN named[m] ELSE Undefined]]

\* boosters?.m ?? defaultBoosters.m, metric by metric.
finalBoosters(boosters) ==
    [m \in Metrics |->
        IF boosters.given /\ boosters.vals[m] # Undefined
        THEN boosters.vals[m]
        ELSE defaultBoosters[m]]

\* f[MetricOrder[1]] + ... + f[MetricOrder[n]], added from the left.
RECURSIVE SumMetrics(_, _)
SumMetrics(f, n) ==
    IF n = 0 THEN N(0) ELSE Add(SumMetrics(f, n - 1), f[MetricOrder[n]])

\* A boosted score divided by the number of metrics instead of the total
\* of the boosters.
calculateBoostedScore_DividesByCount(scores, boosters) ==
    LET fb == finalBoosters(boosters)
        boostedScores == [m \in Metrics |-> Mul(scores[m], fb[m])]
    IN  Div(SumMetrics(boostedScores, Len(MetricOrder)),
            IntNum(Len(MetricOrder)))

calculateBoostedScore(scores, boosters) ==
    LET fb == finalBoosters(boosters)
        boostedScores == [m \in Metrics |-> Mul(scores[m], fb[m])]
        totalWeight == SumMetrics(fb, Len(MetricOrder))
    IN  Div(SumMetrics(boostedScores, Len(MetricOrder)), totalWeight)

\* The comparator of data.sort: scoreB - scoreA; a is moved before b when
\* it is negative (a NaN counts as 0).
SortedBefore(a, b, boosters) ==
    Lt(Sub(calculateBoostedScore(b, boosters),
           calculateBoostedScore(a, boosters)), N(0))

\* x inserted into the sorted rows, behind the rows it is not before.
RECURSIVE InsertRow(_, _, _)
InsertRow(x, rows, boosters) ==
    IF rows = <<>> THEN <<x>>
    ELSE IF SortedBefore(x, Head(rows), boosters) THEN <<x>> \o rows
    ELSE <<Head(rows)>> \o InsertRow(x, Tail(rows), boosters)

\* Array.prototype.sort with that comparator: stable.
RECURSIVE SortRows(_, _)
SortRows(rows, boosters) ==
    IF rows = <<>> THEN <<>>
    ELSE InsertRow(rows[Len(rows)],
                   SortRows(SubSeq(rows, 1, Len(rows) - 1), boosters),
                   boosters)

\* Bound of the number of packages in a report.
MaxRows == 2

\* The Scores records display is called with.
ScoresShown ==
    [maturity : {N(0), N(600), N(Unit)},
     updateFrequency : {N(500)},
     deprecation : {N(0), N(Unit)},
     dependency : {N(300)},
     download : {N(Unit)},
     vulnerability : {N(0), N(Unit)},
     issues : {N(500)}]

BoosterArgs ==
    {NoBoosters}
        \cup {Boosters([m \in ms |-> v]) :
                ms \in {Metrics, {"vulnerability"}, {"maturity", "deprecation"}},
                v \in {N(0), N(500), IntNum(1), IntNum(2)}}

\* The rows display(data, boosters) prints: data sorted by the boosted
\* overall score, one row per package with that score.
tableData(data, boosters) ==
    IF Len(data) = 0 THEN <<>>
    ELSE LET sortedData == SortRows(data, boosters)
         IN  [i \in 1..Len(data) |->
                [scores |-> sortedData[i],
                 overallScore |->
                    calculateBoostedScore(sortedData[i], boosters)]]

display(data, boosters) ==
    /\ call = Idle
    /\ report' = tableData(data, boosters)
    /\ call' = [op |-> "display", data |-> data, boosters |-> boosters]
    /\ UNCHANGED <<heap, currentConfig, returned, result>>

StoreCalls ==
    \/ \E p \in Partials : setScoringConfig(p)
    \/ getScoringConfig
    \/ resetScoringConfig

CallerWrites ==
    \/ \E g \in Groups : \E f \in WrittenFields(g) : \E v \in WrittenValues(g) :
          CallerWritesField(g, f, v)
    \/ \E g \in Groups : CallerWritesGroup(g, WrittenGroup(g))

\* The version strings and the severity counts of the records the
\* aggregate is called with.
ParamVersions ==
    {p.current : p \in ScoringParams} \cup {p.latest : p \in ScoringParams}
ParamSeverities == {p.severity : p \in ScoringParams}

\* The whole program with its caller: the store, the caller's writes into
\* what getScoringConfig returned, and scoring calls on the records the
\* aggregate is called with.
Next ==
    \/ StoreCalls
    \/ CallerWrites
    \/ Return
    \/ ScoringCalls(ParamVersions, ParamSeverities)

Spec == Init /\ [][Next]_vars

\* display called on every list of up to MaxRows rows.
DisplayCalls ==
    /\ call = Idle
    /\ \E n \in 0..MaxRows : \E data \in [1..n -> ScoresShown] :
          \E boosters \in BoosterArgs : display(data, boosters)

\* The exported functions alone, called over all bounded inputs; the caller
\* only reads what getScoringConfig returns.
NextApi ==
    \/ StoreCalls
    \/ Return
    \/ ScoringCalls(VersionStrings, Severities)
    \/ DisplayCalls

SpecApi == Init /\ [][NextApi]_vars

\* ------------------------------------------------------------------------
\* Resolution of the tokens: parseArgs, loadConfigFile, getConfig
\* ------------------------------------------------------------------------

\* Values of the properties of a Config object.
Str(t) == [k |-> "str", s |-> t]
Bool(b) == [k |-> "bool", b |-> b]
EmptyObject == [key \in {} |-> Undefined]

\* o[key], undefined when o has no such property.
Get(o, key) == IF key \in DOMAIN o THEN o[key] ELSE Undefined
\* o with o[key] = value assigned.
Put(o, key, value) ==
    [x \in (DOMAIN o) \cup {key} |-> IF x = key THEN value ELSE o[x]]
\* { ...a, ...b }
ObjectSpread(a, b) ==
    [x \in (DOMAIN a) \cup (DOMAIN b) |-> IF x \in DOMAIN b THEN b[x] ELSE a[x]]
\* !v for a string or undefined
Falsy(v) == v = Undefined \/ v = Str("")

TokenKeys == {"githubToken", "gitlabToken", "bitbucketToken"}

\* The name of a token in the tokens object of an AppConfig file.
AppTokenName(key) ==
    CASE key = "githubToken" -> "github"
      [] key = "gitlabToken" -> "gitlab"
      [] key = "bitbucketToken" -> "bitbucket"

\* The environment variable of a token.
EnvName(key) ==
    CASE key = "githubToken" -> "GITHUB_TOKEN"
      [] key = "gitlabToken" -> "GITLAB_TOKEN"
      [] key = "bitbucketToken" -> "BITBUCKET_TOKEN"

\* The property an option of the command line assigns.
OptionKey(word) ==
    CASE word = "--github-token" -> "githubToken"
      [] word = "--gitlab-token" -> "gitlabToken"
      [] word = "--config" -> "configFile"

\* parseArgs, from args[i] on: an option takes the next word as its value
\* (args[++i] || ''); --no-tokens is an option of src/config.ts only; any
\* other word is skipped.
RECURSIVE parseArgs(_, _, _, _)
parseArgs(args, i, config, noTokensOption) ==
    IF i > Len(args) THEN config
    ELSE IF args[i] \in {"--github-token", "--gitlab-token", "--config"}
    THEN parseArgs(args, i + 2,
                   Put(config, OptionKey(args[i]),
                       IF i + 1 <= Len(args) THEN Str(args[i + 1]) ELSE Str("")),
                   noTokensOption)
    ELSE IF args[i] = "--no-tokens" /\ noTokensOption
    THEN parseArgs(args, i + 1, Put(config, "interactive", Bool(FALSE)),
                   noTokensOption)
    ELSE parseArgs(args, i + 1, config, noTokensOption)

\* const envConfig = { githubToken: process.env.GITHUB_TOKEN || undefined, ... }
envConfig(env) ==
    [key \in TokenKeys |->
        IF EnvName(key) \in DOMAIN env /\ env[EnvName(key)] # ""
        THEN Str(env[EnvName(key)])
        ELSE Undefined]

\* The one configuration file of the file system; every other path fails
\* to load.
ConfigPath == "conf.json"

\* loadConfigFile: the content of the file, {} when it cannot be loaded.
loadConfigFile(filePath, file) ==
    IF filePath = Str(ConfigPath) /\ file.exists THEN file.content
    ELSE EmptyObject

\* getConfig of src/config.ts: the file holds the tokens at its top level;
\* when no token is resolved and --no-tokens is not given, the tokens typed
\* at the prompt are assigned.
getConfig(args, env, file, answers) ==
    /\ call = Idle
    /\ LET cliConfig == parseArgs(args, 1, EmptyObject, TRUE)
           fileConfig ==
               IF ~Falsy(Get(cliConfig, "configFile"))
               THEN loadConfigFile(cliConfig.configFile, file)
               ELSE EmptyObject
           config ==
               ObjectSpread(ObjectSpread(envConfig(env), fileConfig), cliConfig)
           prompts ==
               /\ Get(cliConfig, "interactive") # Bool(FALSE)
               /\ Falsy(Get(cliConfig, "noTokens"))
               /\ \A key \in TokenKeys : Falsy(Get(config, key))
       IN  /\ result' = IF prompts THEN ObjectSpread(config, answers) ELSE config
           /\ call' = [op |-> "getConfig", module |-> "config", args |-> args,
                       env |-> env, file |-> file, answers |-> answers,
                       prompted |-> prompts]
    /\ UNCHANGED <<heap, currentConfig, returned, report>>

\* getConfig of the configuration module with AppConfig files
\* (src/unnamed/part_003): the file holds the tokens in its tokens object
\* and may hold a scoring configuration, which is installed.
getConfig_AppConfig(args, env, file) ==
    /\ call = Idle
    /\ LET cliConfig == parseArgs(args, 1, EmptyObject, FALSE)
           fileConfig ==
               IF ~Falsy(Get(cliConfig, "configFile"))
               THEN loadConfigFile(cliConfig.configFile, file)
               ELSE EmptyObject
           tokens ==
               IF "tokens" \in DOMAIN fileConfig THEN fileConfig.tokens
               ELSE EmptyObject
           finalConfig ==
               ObjectSpread(ObjectSpread(envConfig(env), tokens), cliConfig)
       IN  /\ result' = finalConfig
           /\ call' = [op |-> "getConfig", module |-> "part_003",
                       args |-> args, env |-> env, file |-> file,
                       answers |-> EmptyObject, prompted |-> FALSE]
           /\ IF "scoring" \in DOMAIN fileConfig
              THEN LET refs == AllocRefs(fileConfig.scoring)
                       cc == Spread(DEFAULT_SCORING_CONFIG, refs)
                   IN  /\ currentConfig' = cc
                       /\ heap' = Collect(AllocHeap(heap, fileConfig.scoring,
                                                    refs), cc, NoRefs)
              ELSE UNCHANGED <<heap, currentConfig>>
    /\ UNCHANGED <<returned, report>>

\* Bound of the number of words on the command line.
MaxArgs == 4

ArgWords ==
    {"--github-token", "--gitlab-token", "--config", "--no-tokens",
     "cli_token", ConfigPath}

Environments ==
    {EmptyObject,
     [x \in {"GITHUB_TOKEN"} |-> "env_github"],
     [x \in {"GITHUB_TOKEN", "GITLAB_TOKEN"} |->
         IF x = "GITHUB_TOKEN" THEN "env_github" ELSE "env_gitlab"]}

NoFile == [exists |-> FALSE, content |-> EmptyObject]
FileWith(content) == [exists |-> TRUE, content |-> content]

\* Files of src/config.ts: { "githubToken": ..., "gitlabToken": ... }.
ConfigFiles ==
    {NoFile,
     FileWith(EmptyObject),
     FileWith([x \in {"githubToken"} |-> Str("file_github")]),
     FileWith([x \in {"githubToken", "gitlabToken"} |->
                 IF x = "githubToken" THEN Str("file_github")
                 ELSE Str("file_gitlab")])}

\* Files of src/unnamed/part_003: { tokens: { github: ... }, scoring: ... }.
AppConfigFiles ==
    {NoFile,
     FileWith(EmptyObject),
     FileWith([x \in {"tokens"} |->
                 [y \in {"github"} |-> Str("file_github")]]),
     FileWith([tokens |-> [github |-> Str("file_github"),
                           gitlab |-> Str("file_gitlab")],
               scoring |-> ReadmeWeights])}

\* What is typed at the prompt of src/config.ts.
Answers == {EmptyObject, [x \in {"githubToken"} |-> Str("typed_github")]}

ArgLists == UNION {[1..n -> ArgWords] : n \in 0..MaxArgs}

ConfigCalls ==
    /\ call = Idle
    /\ \/ \E args \in ArgLists : \E env \in Environments :
             \E file \in ConfigFiles : \E answers \in Answers :
                getConfig(args, env, file, answers)
       \/ \E args \in ArgLists : \E env \in Environments :
             \E file \in AppConfigFiles :
                getConfig_AppConfig(args, env, file)

\* The start of the command line tool: getConfig, in either module, on
\* every bounded command line, environment and configuration file.
NextConfig ==
    \/ ConfigCalls
    \/ Return

SpecConfig == Init /\ [][NextConfig]_vars

\* ------------------------------------------------------------------------
\* The seven metrics of a package: buildPackageData and calculateAllScores
\* ------------------------------------------------------------------------

\* The time object of `npm view`: its created entry (a date, here the
\* number of days it lies before today) and the number of its keys
\* (created, modified and one per published version).
EmptyTimeData == [created |-> Undefined, keys |-> 0]
TimeData(ageDays, versions) ==
    [created |-> IntNum(ageDays), keys |-> versions + 2]

\* What `npm view <package> --json` gave: time (or undefined), whether
\* deprecated is truthy, and the numbers of keys of dependencies and
\* devDependencies.
NpmInfo(time, deprecated, deps, devDeps) ==
    [time |-> time, deprecated |-> deprecated,
     dependencies |-> deps, devDependencies |-> devDeps]

\* The severities `npm audit` can name for a package; "none": the audit
\* has no entry for it.
AuditSeverities == {"none", "info", "low", "moderate", "high", "critical"}

\* buildPackageData(packageName, npmInfo, _, auditInfo, tokens), given
\* what getLastWeekDownloads and getRepoData returned.  A date is the
\* number of days it lies before today, so Date.now() is 0.
buildPackageData(npmInfo, auditSeverity, lastWeekDownloads, repoData) ==
    LET timeData == IF npmInfo.time = Undefined THEN EmptyTimeData
                    ELSE npmInfo.time
        createdDate == IF timeData.created = Undefined THEN IntNum(0)
                       ELSE timeData.created
        count(severity) == IF auditSeverity = severity THEN 1 ELSE 0
    IN  [createdDate |-> createdDate,
         versionCount |-> IntNum(timeData.keys - 2),
         deprecated |-> npmInfo.deprecated,
         dependencyCount |-> IntNum(npmInfo.dependencies),
         devDependencyCount |-> IntNum(npmInfo.devDependencies),
         lastWeekDownloads |-> lastWeekDownloads,
         vulnerabilities |->
            [critical |-> count("critical"), high |-> count("high"),
             moderate |-> count("moderate"), low |-> count("low")],
         openIssuesCount |-> repoData.openIssuesCount]

\* daysBetween(date, today) for a date given in days before today.
daysBetween(daysAgo) ==
    IF Lt(daysAgo, N(0)) THEN Neg(daysAgo) ELSE ToNumber(daysAgo)

calculateMaturity(pkg) ==
    LET ageDays == daysBetween(pkg.createdDate)
        yearsActive == Div(ageDays, IntNum(365))
        ageNormalized == MathMin(Div(yearsActive, IntNum(10)), IntNum(1))
        releasesPerYear ==
            Div(pkg.versionCount, MathMax(yearsActive, IntNum(1)))
        releaseRateNormalized ==
            MathMin(Div(releasesPerYear, IntNum(4)), IntNum(1))
    IN  Add(Mul(ageNormalized, N(600)), Mul(releaseRateNormalized, N(400)))

calculateUpdateFrequency(pkg) ==
    LET yearsActive == Div(daysBetween(pkg.createdDate), IntNum(365))
        releasesPerYear ==
            Div(pkg.versionCount, MathMax(yearsActive, IntNum(1)))
        normalized == Div(Sub(releasesPerYear, IntNum(1)), IntNum(12 - 1))
    IN  MathMin(MathMax(normalized, N(0)), IntNum(1))

calculateDeprecation(pkg) == IF pkg.deprecated THEN N(0) ELSE IntNum(1)

calculateDependency(pkg) ==
    LET runtime ==
            Sub(IntNum(1),
                MathMin(Div(MathLog10(Add(pkg.dependencyCount, IntNum(1))),
                            MathLog10(IntNum(41))), IntNum(1)))
        dev ==
            Sub(IntNum(1),
                MathMin(Div(MathLog10(Add(pkg.devDependencyCount, IntNum(1))),
                            MathLog10(IntNum(81))), IntNum(1)))
    IN  Add(Mul(runtime, N(700)), Mul(dev, N(300)))

calculateDownload(pkg) ==
    IF Leq(pkg.lastWeekDownloads, N(0)) THEN N(0)
    ELSE MathMin(Div(MathLog10(pkg.lastWeekDownloads), IntNum(6)), IntNum(1))

calculateVulnerability(pkg) ==
    LET v == pkg.vulnerabilities
        criticalPenalty == Mul(IntNum(v.critical), N(600))
        highPenalty == Mul(IntNum(v.high), N(400))
        moderatePenalty == Mul(IntNum(v.moderate), N(200))
        lowPenalty == Mul(IntNum(v.low), N(100))
        totalPenalty ==
            MathMin(Add(Add(Add(criticalPenalty, highPenalty), moderatePenalty),
                        lowPenalty), IntNum(1))
    IN  Sub(IntNum(1), totalPenalty)

calculateIssues(pkg) ==
    LET denominator ==
            MathMax(Div(pkg.lastWeekDownloads, IntNum(10000)), IntNum(1))
        ratio == Div(pkg.openIssuesCount, denominator)
    IN  Sub(IntNum(1),
            MathMin(Div(MathLog10(Add(ratio, IntNum(1))),
                        MathLog10(IntNum(51))), IntNum(1)))

calculateAllScores(pkg) ==
    [maturity |-> calculateMaturity(pkg),
     updateFrequency |-> calculateUpdateFrequency(pkg),
     deprecation |-> calculateDeprecation(pkg),
     dependency |-> calculateDependency(pkg),
     download |-> calculateDownload(pkg),
     vulnerability |-> calculateVulnerability(pkg),
     issues |-> calculateIssues(pkg)]

\* Bounds of the package data: the age of the oldest package in years and
\* the number of versions it has published per year.
MaxYears == 10
MaxReleaseRate == 4

\* What npm view can say about the time of a package: nothing, or a
\* package created today or MaxYears years ago.
TimesSeen ==
    {Undefined, EmptyTimeData, TimeData(0, 1), TimeData(365, 1),
     TimeData(365 * MaxYears, MaxYears * MaxReleaseRate)}

NpmInfos ==
    {NpmInfo(t, d, c[1], c[2]) :
        t \in TimesSeen, d \in BOOLEAN, c \in {<<0, 0>>, <<40, 80>>}}

\* Weekly downloads (0 also when they cannot be fetched) and open issues.
DownloadCounts == {N(0), IntNum(10000)}
RepoDatas == {[openIssuesCount |-> N(0)], [openIssuesCount |-> IntNum(50)]}

\* One package analysed as a task of analyzeDependencies analyses it:
\* buildPackageData, then calculateAllScores.
AnalyzePackage(npmInfo, auditSeverity, lastWeekDownloads, repoData) ==
    /\ call = Idle
    /\ LET packageData ==
               buildPackageData(npmInfo, auditSeverity, lastWeekDownloads,
                                repoData)
       IN  /\ result' = calculateAllScores(packageData)
           /\ call' = [op |-> "analyzePackage", package |-> packageData]
    /\ UNCHANGED <<heap, currentConfig, returned, report>>

PackageCalls ==
    /\ call = Idle
    /\ \E npmInfo \in NpmInfos : \E auditSeverity \in AuditSeverities :
          \E lastWeekDownloads \in DownloadCounts : \E repoData \in RepoDatas :
             AnalyzePackage(npmInfo, auditSeverity, lastWeekDownloads, repoData)

NextPackage ==
    \/ PackageCalls
    \/ Return

SpecPackage == Init /\ [][NextPackage]_vars

\* ------------------------------------------------------------------------
\* The booster configuration file: createConfigFile, loadConfig
\* ------------------------------------------------------------------------

\* Values JSON.parse gives besides numbers and strings.
JsonNull == [k |-> "null", v |-> 0]
JsonObject(entries) == [k |-> "obj", entries |-> entries]

\* typeof x
TypeOf(x) ==
    CASE x.k \in {"num", "nan", "inf"} -> "number"
      [] x.k = "str" -> "string"
      [] x.k = "bool" -> "boolean"
      [] x.k = "undef" -> "undefined"
      [] x.k \in {"obj", "null"} -> "object"

\* The truthiness of x.
Truthy(x) ==
    CASE x.k = "num" -> x.v # 0
      [] x.k = "str" -> x.s # ""
      [] x.k = "bool" -> x.b
      [] x.k \in {"inf", "obj"} -> TRUE
      [] x.k \in {"nan", "undef", "null"} -> FALSE

DEFAULT_CONFIG ==
    JsonObject([boosters |->
        JsonObject([maturity |-> IntNum(2), updateFrequency |-> IntNum(1),
                    deprecation |-> IntNum(3), dependency |-> IntNum(1),
                    download |-> IntNum(1), vulnerability |-> IntNum(2),
                    issues |-> IntNum(1)])])

\* A path of the file system: no file, a file that is not JSON, or a file
\* holding the JSON text of a value.
MissingFile == [kind |-> "missing", value |-> JsonNull]
NotJson == [kind |-> "text", value |-> JsonNull]
JSONstringify(value) == [kind |-> "json", value |-> value]

\* What a function gave: a value returned or an Error thrown.
Returned(value) == [threw |-> FALSE, value |-> value, message |-> ""]
Threw(message) == [threw |-> TRUE, value |-> JsonNull, message |-> message]

\* createConfigFile(configPath) when the path holds file: the file it
\* leaves at the path, returned when it wrote it.
createConfigFile(file) ==
    IF file.kind # "missing" THEN Threw("Configuration file already exists")
    ELSE Returned(JSONstringify(DEFAULT_CONFIG))

validBoosters ==
    {"maturity", "updateFrequency", "deprecation", "dependency", "download",
     "vulnerability", "issues"}

\* A validateConfig that lets a booster of 0 pass.
validateConfig_AllowsZero(config) ==
    IF TypeOf(config) # "object" \/ config = JsonNull
    THEN Threw("Configuration must be an object")
    ELSE LET boosters == Get(config.entries, "boosters")
         IN  IF Truthy(boosters) /\ TypeOf(boosters) # "object"
             THEN Threw("boosters must be an object")
             ELSE IF /\ Truthy(boosters)
                     /\ \E key \in DOMAIN boosters.entries :
                           \/ key \notin validBoosters
                           \/ TypeOf(boosters.entries[key]) # "number"
                           \/ Lt(boosters.entries[key], N(0))
             THEN Threw("Invalid booster")
             ELSE Returned(Undefined)

\* validateConfig(config): returns, or throws at the first entry of
\* boosters that has an unknown key or a value that is not a positive
\* number.
validateConfig(config) ==
    IF TypeOf(config) # "object" \/ config = JsonNull
    THEN Threw("Configuration must be an object")
    ELSE LET boosters == Get(config.entries, "boosters")
         IN  IF Truthy(boosters) /\ TypeOf(boosters) # "object"
             THEN Threw("boosters must be an object")
             ELSE IF /\ Truthy(boosters)
                     /\ \E key \in DOMAIN boosters.entries :
                           \/ key \notin validBoosters
                           \/ TypeOf(boosters.entries[key]) # "number"
                           \/ Leq(boosters.entries[key], N(0))
             THEN Threw("Invalid booster")
             ELSE Returned(Undefined)

\* loadConfig(configPath) when the path holds file.
loadConfig(file) ==
    IF file.kind = "missing" THEN Threw("Configuration file not found")
    ELSE IF file.kind = "text"
    THEN Threw("Invalid JSON in configuration file")
    ELSE IF validateConfig(file.value).threw THEN validateConfig(file.value)
    ELSE Returned(file.value)

\* config?.boosters as display reads it: boosters?.m for each metric.
boostersOf(config) ==
    IF config = JsonNull THEN NoBoosters
    ELSE LET boosters == Get(config.entries, "boosters")
         IN  IF boosters = Undefined \/ boosters = JsonNull THEN NoBoosters
             ELSE Boosters(boosters.entries)

\* ------------------------------------------------------------------------
\* A run of the command: main, analyzeDependencies and its pool of tasks
\* ------------------------------------------------------------------------

\* Bounds: the number of dependencies in package.json, and the number of
\* tasks the limiter runs at once (pLimit(10) in the code).
MaxPackages == 3
PoolWidth == 2

\* A task of the pool: waiting in the limiter's queue, awaiting
\* getPackageInfo, awaiting buildPackageData, or settled with its value
\* (null or a {package, scores} entry) and the line it logged on failure.
Queued ==
    [st |-> "queued", npmInfo |-> JsonNull, value |-> JsonNull, log |-> ""]
Fetching ==
    [st |-> "fetching", npmInfo |-> JsonNull, value |-> JsonNull, log |-> ""]
Building(npmInfo) ==
    [st |-> "building", npmInfo |-> npmInfo, value |-> JsonNull, log |-> ""]
Settled(value, log) ==
    [st |-> "settled", npmInfo |-> JsonNull, value |-> value, log |-> log]

Running(tasks) == {i \in DOMAIN tasks : tasks[i].st \in {"fetching", "building"}}

\* process.exit(code), with what the run wrote to disk and what it read.
Exited(code, written, configFile) ==
    [op |-> "main", pc |-> "exited", code |-> code, written |-> written,
     configFile |-> configFile]

\* main() up to the first task of the pool.  initConfig: --init-config was
\* given; atInitPath: what the path to create holds; configFile: what the
\* path given with --config holds (null without --config); packageJson:
\* the number of dependencies of package.json, or -1 when it cannot be
\* read; criticals: the packages npm audit reports as critical.
main(initConfig, atInitPath, configFile, packageJson, criticals) ==
    /\ call = Idle
    /\ IF initConfig
       THEN LET made == createConfigFile(atInitPath)
            IN  /\ call' = Exited(IF made.threw THEN 1 ELSE 0,
                                  IF made.threw THEN MissingFile ELSE made.value,
                                  JsonNull)
                /\ UNCHANGED <<result, report>>
       ELSE LET loaded == IF configFile = JsonNull THEN Returned(JsonNull)
                          ELSE loadConfig(configFile)
            IN  IF loaded.threw \/ packageJson < 0
                THEN /\ call' = Exited(1, MissingFile, configFile)
                     /\ UNCHANGED <<result, report>>
                ELSE IF packageJson = 0
                THEN /\ call' = [op |-> "main", pc |-> "done",
                                 configFile |-> configFile,
                                 config |-> loaded.value, criticals |-> {},
                                 tasks |-> <<>>]
                     /\ result' = <<>>
                     /\ report' = tableData(<<>>, boostersOf(loaded.value))
                ELSE /\ call' = [op |-> "main", pc |-> "analyzing",
                                 configFile |-> configFile,
                                 config |-> loaded.value,
                                 criticals |-> criticals,
                                 tasks |-> [i \in 1..packageJson |-> Queued]]
                     /\ UNCHANGED <<result, report>>
    /\ UNCHANGED <<heap, currentConfig, returned>>

\* The limiter starts the next queued task when fewer than PoolWidth are
\* running; the task runs up to its await of getPackageInfo.
taskStart(i) ==
    /\ call.op = "main" /\ call.pc = "analyzing"
    /\ i \in DOMAIN call.tasks
    /\ call.tasks[i].st = "queued"
    /\ \A j \in 1..(i - 1) : call.tasks[j].st # "queued"
    /\ Cardinality(Running(call.tasks)) < PoolWidth
    /\ call' = [call EXCEPT !.tasks[i] = Fetching]
    /\ UNCHANGED <<heap, currentConfig, returned, result, report>>

\* getPackageInfo settles with npmInfo (null when npm view failed): the
\* task returns null, or goes on to await buildPackageData.
taskGotInfo(i, npmInfo) ==
    /\ call.op = "main" /\ call.pc = "analyzing"
    /\ i \in DOMAIN call.tasks
    /\ call.tasks[i].st = "fetching"
    /\ call' = [call EXCEPT !.tasks[i] =
                   IF npmInfo = JsonNull
                   THEN Settled(JsonNull, "Could not fetch info")
                   ELSE Building(npmInfo)]
    /\ UNCHANGED <<heap, currentConfig, returned, result, report>>

\* A task in which an exception thrown while the package is built is not
\* caught: the promise of the task rejects, Promise.all rejects, and main
\* exits with 1.
taskBuilt_Uncaught(i, threw, lastWeekDownloads, repoData) ==
    /\ call.op = "main" /\ call.pc = "analyzing"
    /\ i \in DOMAIN call.tasks
    /\ call.tasks[i].st = "building"
    /\ call' =
          IF threw THEN Exited(1, MissingFile, JsonNull)
          ELSE LET packageData ==
                       buildPackageData(call.tasks[i].npmInfo,
                           IF i \in call.criticals THEN "critical" ELSE "none",
                           lastWeekDownloads, repoData)
               IN  [call EXCEPT !.tasks[i] =
                       Settled([name |-> i, package |-> packageData,
                                scores |-> calculateAllScores(packageData)],
                               "")]
    /\ UNCHANGED <<heap, currentConfig, returned, result, report>>

\* buildPackageData settles and the scores are calculated: the task
\* returns {package, scores}, or null from its catch when an exception was
\* thrown on the way.
taskBuilt(i, threw, lastWeekDownloads, repoData) ==
    /\ call.op = "main" /\ call.pc = "analyzing"
    /\ i \in DOMAIN call.tasks
    /\ call.tasks[i].st = "building"
    /\ call' =
          IF threw
          THEN [call EXCEPT !.tasks[i] = Settled(JsonNull, "Error analyzing")]
          ELSE LET packageData ==
                       buildPackageData(call.tasks[i].npmInfo,
                           IF i \in call.criticals THEN "critical" ELSE "none",
                           lastWeekDownloads, repoData)
               IN  [call EXCEPT !.tasks[i] =
                       Settled([name |-> i, package |-> packageData,
                                scores |-> calculateAllScores(packageData)],
                               "")]
    /\ UNCHANGED <<heap, currentConfig, returned, result, report>>

\* Promise.all(analysisPromises) settles: the values are filtered, and
\* main displays them.
mainDisplay ==
    /\ call.op = "main" /\ call.pc = "analyzing"
    /\ \A i \in DOMAIN call.tasks : call.tasks[i].st = "settled"
    /\ LET values == [i \in DOMAIN call.tasks |-> call.tasks[i].value]
           results == SelectSeq(values, LAMBDA v : v # JsonNull)
       IN  /\ result' = results
           /\ report' = tableData([i \in DOMAIN results |-> results[i].scores],
                                  boostersOf(call.config))
    /\ call' = [call EXCEPT !.pc = "done"]
    /\ UNCHANGED <<heap, currentConfig, returned>>

\* The process ends; the next run starts from an idle shell.
Exit ==
    /\ call.op = "main" /\ call.pc \in {"done", "exited"}
    /\ call' = Idle
    /\ result' = Undefined
    /\ report' = <<>>
    /\ UNCHANGED <<heap, currentConfig, returned>>

\* The files --config is given.
BoosterFiles ==
    {MissingFile, NotJson, JSONstringify(IntNum(1)), JSONstringify(JsonNull),
     JSONstringify(JsonObject([boosters |-> JsonNull])),
     JSONstringify(JsonObject([boosters |-> Str("high")])),
     JSONstringify(DEFAULT_CONFIG),
     JSONstringify(JsonObject([boosters |->
         JsonObject([maturity |-> IntNum(3), issues |-> N(0)])]))}
        \cup {JSONstringify(JsonObject([boosters |-> JsonObject([key \in {k} |-> v])])) :
                k \in {"vulnerability", "speed"},
                v \in {N(-Unit), N(0), N(500), Str("2"), JsonNull}}

\* What npm view gives in a run.
NpmInfosFetched ==
    {JsonNull, NpmInfo(Undefined, FALSE, 0, 0),
     NpmInfo(TimeData(365 * MaxYears, MaxYears * MaxReleaseRate), FALSE, 40, 80)}

\* What the path of --init-config holds, what --config names (null
\* without the option), and the packages npm audit reports as critical.
InitPaths == {MissingFile, NotJson}
ConfigArguments == {JsonNull} \cup BoosterFiles
CriticalSets == {{}, {1}}

Runs ==
    /\ call = Idle
    /\ \/ \E atInitPath \in InitPaths :
             main(TRUE, atInitPath, JsonNull, 0, {})
       \/ \E configFile \in ConfigArguments :
             \E packageJson \in -1..MaxPackages :
                \E criticals \in CriticalSets :
                   main(FALSE, MissingFile, configFile, packageJson, criticals)

Tasks ==
    \E i \in 1..MaxPackages :
        \/ taskStart(i)
        \/ \E npmInfo \in NpmInfosFetched : taskGotInfo(i, npmInfo)
        \/ \E threw \in BOOLEAN : taskBuilt(i, threw, N(0), [openIssuesCount |-> N(0)])

NextCli ==
    \/ Runs
    \/ Tasks
    \/ mainDisplay
    \/ Exit

SpecCli == Init /\ [][NextCli]_vars

\* ------------------------------------------------------------------------
\* Properties of the configuration store
\* ------------------------------------------------------------------------

\* C1: after setScoringConfig(partial), every field of a group the partial
\* names that the partial itself does not name still has its default value.
C1_UntouchedFieldsKeepDefault ==
    call.op = "setScoringConfig" =>
        \A g \in DOMAIN call.config : \A f \in Fields(g) :
            call.config[g][f] = Undefined =>
                ConfigSeen[g][f] = DefaultLiteral[g][f]

\* C2: setScoringConfig composes: a call changes only the groups its
\* partial names, so what an earlier call installed in the other groups is
\* still there after it.
C2_SetComposes ==
    [][(call.op = "idle" /\ call'.op = "setScoringConfig") =>
          \A g \in Groups \ DOMAIN call'.config :
              ConfigSeen'[g] = ConfigSeen[g]]_vars

\* C3: while the caller holds the object getScoringConfig returned, nothing
\* it writes into it changes the configuration getScoringConfig and the
\* scoring calls see.
C3_GetReturnsDefensiveCopy ==
    [][(returned # NoRefs /\ returned' # NoRefs) =>
          ConfigSeen' = ConfigSeen]_vars

\* C4: right after resetScoringConfig, whatever setScoringConfig calls came
\* before, getScoringConfig shows the hard-coded defaults.
C4_ResetRestoresDefaults ==
    call.op = "resetScoringConfig" => ConfigSeen = DefaultLiteral

\* A reset that came after a setScoringConfig whose objects are still in the
\* heap.
C4_Witness ==
    /\ call.op = "resetScoringConfig"
    /\ DOMAIN heap # DefaultAddrs

\* C5: a scoring call, with or without an override, leaves the global
\* configuration as it was.
C5_ScoringCallsKeepConfig ==
    [][(call.op = "idle" /\ call'.op \in ScoringOps) =>
          /\ currentConfig' = currentConfig
          /\ ConfigSeen' = ConfigSeen]_vars

\* A scoring call with an override, made while a configuration other than
\* the default is installed.
C5_Witness ==
    /\ call.op \in ScoringOps
    /\ call.config.given
    /\ DOMAIN call.config.part # {}
    /\ ConfigSeen # DefaultLiteral

\* ------------------------------------------------------------------------
\* Properties of the aggregates and the sub-scores
\* ------------------------------------------------------------------------

\* The configuration a call computed with, passed as an override that
\* names every group, its weights multiplied by k.
ScaledWeights(config, k) ==
    LET cfg == MergedConfig(config)
    IN  Given([g \in Groups |->
                 IF g = "weights"
                 THEN [f \in WeightFields |-> Mul(cfg.weights[f], IntNum(k))]
                 ELSE cfg[g]])

AllNumbers(obj) == \A f \in DOMAIN obj : obj[f].k = "num"

\* C6: calcFinalScore re-normalizes by the weight sum: scoring the record
\* again with every weight doubled gives the same aggregate.
C6_ScalingWeightsKeepsAggregate ==
    (/\ call.op = "calcFinalScore"
     /\ AllNumbers(MergedConfig(call.config).weights)) =>
        result = calcFinalScore(call.params, ScaledWeights(call.config, 2))

WeightTotal(w) == Add(Add(Add(w.lag, w.vuln), w.health), w.activity)

\* The four sub-scores of a record are numbers under the call's
\* configuration.
SubScoresAreNumbers(params, config) ==
    /\ calcLagScore(params.current, params.latest, config).k = "num"
    /\ calcVulnScore(params.severity, config).k = "num"
    /\ calcCommunityScore(params.stars, params.openIssues, config).k = "num"
    /\ calcActivityScore(params.lastCommit, config).k = "num"

\* C7: with a total weight of zero calcFinalScore returns 0 (for a record
\* whose sub-scores are numbers), and with boosters that add up to zero
\* every overall score display prints is 0; neither is NaN.
C7_ZeroTotalGivesZero ==
    /\ (/\ call.op = "calcFinalScore"
        /\ WeightTotal(MergedConfig(call.config).weights) = N(0)
        /\ SubScoresAreNumbers(call.params, call.config)) =>
           result = N(0)
    /\ (/\ call.op = "display"
        /\ SumMetrics(finalBoosters(call.boosters), Len(MetricOrder)) = N(0)) =>
           \A i \in DOMAIN report : report[i].overallScore = N(0)

\* C8: calcFinalScore returns an integer from 0 to 100 for a record with a
\* parsable timestamp, whether it is called with the global configuration
\* (here the default) or with an override, one that names only some weights
\* included.
C8_FinalScoreIsPercentage ==
    (/\ call.op = "calcFinalScore"
     /\ call.params.lastCommit.s # "invalid"
     /\ ConfigSeen = DefaultLiteral) =>
        /\ result.k = "num"
        /\ result.v >= 0 /\ result.v <= 100 * Unit
        /\ result.v % Unit = 0

\* C9: calcLagScore, called with the default configuration, returns a value
\* in [0,1] for every pair of version strings.
C9_LagScoreInUnitInterval ==
    (/\ call.op = "calcLagScore"
     /\ ~call.config.given
     /\ ConfigSeen = DefaultLiteral) =>
        /\ result.k = "num"
        /\ result.v >= 0 /\ result.v <= Unit

\* C10: with the default configuration, one more critical, high or moderate
\* vulnerability never raises what calcVulnScore returns.
C10_VulnScoreMonotone ==
    (/\ call.op = "calcVulnScore"
     /\ ~call.config.given
     /\ ConfigSeen = DefaultLiteral) =>
        \A tier \in {"critical", "high", "moderate"} :
            Leq(calcVulnScore([call.sev EXCEPT ![tier] = @ + 1], call.config),
                result)

\* ------------------------------------------------------------------------
\* Properties of the version-lag and activity sub-scores
\* ------------------------------------------------------------------------

\* The version string one version further on in component c (1 major,
\* 2 minor, 3 patch).
Ahead(latest, c) ==
    LET v == SemverCoerce(latest)
        n == <<v.major, v.minor, v.patch>>
    IN  Version([n EXCEPT ![c] = @ + 1])

\* latest is at or ahead of current in every component.
NotBehind(current, latest) ==
    LET cur == SemverCoerce(current)  lat == SemverCoerce(latest)
    IN  /\ cur.ok /\ lat.ok
        /\ lat.major >= cur.major
        /\ lat.minor >= cur.minor
        /\ lat.patch >= cur.patch

\* C11: with the default configuration and latest not behind current,
\* moving latest one more major, minor or patch version ahead never raises
\* what calcLagScore returns.
C11_LagScoreMonotone ==
    (/\ call.op = "calcLagScore"
     /\ ~call.config.given
     /\ ConfigSeen = DefaultLiteral
     /\ NotBehind(call.current, call.latest)) =>
        \A c \in 1..3 :
            Leq(calcLagScore(call.current, Ahead(call.latest, c), call.config),
                result)

\* The ages in days of the timestamps calcActivityScore is called with.
CommitAges == {lc.age : lc \in {x \in LastCommits : x.s = "date"}}

\* C12: with the default configuration, a last commit that is older (of
\* two ages that are not in the future) never scores higher in
\* calcActivityScore.
C12_ActivityScoreMonotone ==
    (/\ call.op = "calcActivityScore"
     /\ ~call.config.given
     /\ ConfigSeen = DefaultLiteral
     /\ call.lastCommit.s = "date"
     /\ call.lastCommit.age >= 0) =>
        \A d2 \in CommitAges :
            d2 > call.lastCommit.age =>
                Leq(calcActivityScore(DateAged(d2), call.config), result)

\* C13: calcLagScore returns exactly 1 when latest is empty or "unknown" or
\* when current or latest cannot be coerced, whatever the other argument
\* and the configuration are.
C13_LagScoreOneWhenUnmeasurable ==
    (/\ call.op = "calcLagScore"
     /\ \/ call.latest.s \in {"empty", "unknown"}
        \/ ~SemverCoerce(call.current).ok
        \/ ~SemverCoerce(call.latest).ok) =>
        result = N(Unit)

C13_Witness ==
    /\ call.op = "calcLagScore"
    /\ ~SemverCoerce(call.current).ok
    /\ SemverCoerce(call.latest).ok
    /\ SemverCoerce(call.latest).major > 0
    /\ call.config.given
    /\ "penalties" \in DOMAIN call.config.part
    /\ result = N(Unit)

\* latest is exactly one major version ahead of current, minor and patch
\* being equal.
OneMajorAhead(current, latest) ==
    LET cur == SemverCoerce(current)  lat == SemverCoerce(latest)
    IN  /\ cur.ok /\ lat.ok
        /\ lat.major = cur.major + 1
        /\ lat.minor = cur.minor
        /\ lat.patch = cur.patch

\* C14: when latest is exactly one major version ahead of current and the
\* penalties of the configuration are numbers, calcLagScore returns
\* 1 - majorUpdate, which is 0.5 with the default majorUpdate.
C14_OneMajorBehind ==
    (/\ call.op = "calcLagScore"
     /\ OneMajorAhead(call.current, call.latest)
     /\ AllNumbers(MergedConfig(call.config).penalties)) =>
        /\ result = Sub(N(Unit), MergedConfig(call.config).penalties.majorUpdate)
        /\ MergedConfig(call.config).penalties = DefaultPenalties =>
              result = N(500)

C14_Witness ==
    /\ call.op = "calcLagScore"
    /\ call.current = Version(<<1, 0, 0>>)
    /\ call.latest = Version(<<2, 0, 0>>)
    /\ AllNumbers(MergedConfig(call.config).penalties)
    /\ MergedConfig(call.config).penalties.majorUpdate = N(900)
    /\ result = N(100)

\* C16: in calcLagScore, with the default configuration, each of the major,
\* minor and patch penalty terms is non-negative, also when current is ahead
\* of latest in that component.
C16_LagPenaltiesNonNegative ==
    (/\ call.op = "calcLagScore"
     /\ ~call.config.given
     /\ ConfigSeen = DefaultLiteral
     /\ SemverCoerce(call.current).ok
     /\ SemverCoerce(call.latest).ok) =>
        LET p == LagPenalties(call.current, call.latest, call.config)
        IN  /\ Geq(p.majorPenalty, N(0))
            /\ Geq(p.minorPenalty, N(0))
            /\ Geq(p.patchPenalty, N(0))

\* ------------------------------------------------------------------------
\* Properties of the vulnerability sub-score, the boosters and the aggregate
\* ------------------------------------------------------------------------

\* calcVulnScore is called with the default configuration for one critical
\* vulnerability and no other.
OneCriticalByDefault ==
    /\ call.op = "calcVulnScore"
    /\ ~call.config.given
    /\ ConfigSeen = DefaultLiteral
    /\ call.sev = [critical |-> 1, high |-> 0, moderate |-> 0]

\* C15 as the claim states it: with the default configuration one critical
\* vulnerability and no other gives the vulnerability sub-score
\* 1 - 0.8 = 0.2.
C15_OneCriticalScoresFifth == OneCriticalByDefault => result = N(200)

\* C15, amended: with the default configuration (criticalVuln 0.6) one
\* critical vulnerability and no other gives 1 - 0.6 = 0.4.
C15_OneCriticalScoresTwoFifths == OneCriticalByDefault => result = N(400)

C15_Witness == OneCriticalByDefault /\ result = N(400)

\* The boosters display would combine if every metric that is not supplied
\* had the booster 1.0.
SuppliedOrOne(boosters) ==
    [given |-> TRUE,
     vals |-> [m \in Metrics |->
                 IF boosters.given /\ boosters.vals[m] # Undefined
                 THEN boosters.vals[m]
                 ELSE IntNum(1)]]

\* C17: display combines every metric whose booster is not supplied with
\* the booster 1.0: each overall score it prints is the one computed with
\* 1.0 in the place of every missing booster.
C17_MissingBoosterIsOne ==
    call.op = "display" =>
        \A i \in DOMAIN report :
            report[i].overallScore =
                calculateBoostedScore(report[i].scores,
                                      SuppliedOrOne(call.boosters))

\* calcFinalScore is called with the default configuration on a record with
\* current equal to latest, no vulnerability, no open issue and a last
\* commit at most 30 days old.
UpToDateRecordByDefault ==
    /\ call.op = "calcFinalScore"
    /\ ~call.config.given
    /\ ConfigSeen = DefaultLiteral
    /\ SemverCoerce(call.params.current).ok
    /\ SemverCoerce(call.params.current) = SemverCoerce(call.params.latest)
    /\ call.params.severity = [critical |-> 0, high |-> 0, moderate |-> 0]
    /\ call.params.openIssues = 0
    /\ call.params.lastCommit.s = "date"
    /\ call.params.lastCommit.age \in 0..30

\* The lag and vulnerability sub-scores of the record of the call are 1.
LagAndVulnAreOne ==
    /\ calcLagScore(call.params.current, call.params.latest, call.config)
          = N(Unit)
    /\ calcVulnScore(call.params.severity, call.config) = N(Unit)

\* C19 as the claim states it: every such record gets lag score 1,
\* vulnerability score 1 and an aggregate of at least 95.
C19_UpToDateScoresNearMaximum ==
    UpToDateRecordByDefault =>
        /\ LagAndVulnAreOne
        /\ Geq(result, IntNum(95))

\* C19, amended: every such record gets lag score 1, vulnerability score 1
\* and an aggregate of at least 76; the aggregate is at least 95 when the
\* repository has maxStars stars or more and the last commit is of today.
C19_UpToDateScoresByPopularity ==
    UpToDateRecordByDefault =>
        /\ LagAndVulnAreOne
        /\ Geq(result, IntNum(76))
        /\ (/\ Geq(IntNum(call.params.stars), DefaultConstants.maxStars)
            /\ call.params.lastCommit.age = 0) =>
               Geq(result, IntNum(95))

C19_Witness ==
    /\ UpToDateRecordByDefault
    /\ call.params.stars = 100000
    /\ call.params.lastCommit.age = 0
    /\ result = IntNum(100)

\* C20: with the default configuration calcActivityScore returns 0 for an
\* empty timestamp and, for every other timestamp, a number in [0,1].
C20_ActivityScoreBounded ==
    (/\ call.op = "calcActivityScore"
     /\ ~call.config.given
     /\ ConfigSeen = DefaultLiteral) =>
        /\ call.lastCommit.s = "empty" => result = N(0)
        /\ result.k = "num"
        /\ result.v >= 0 /\ result.v <= Unit

\* ------------------------------------------------------------------------
\* Properties of the resolution of the tokens
\* ------------------------------------------------------------------------

\* The configuration file the call loaded, {} when it named or loaded none.
FileLoaded ==
    LET cliConfig == parseArgs(call.args, 1, EmptyObject, call.module = "config")
    IN  IF ~Falsy(Get(cliConfig, "configFile"))
        THEN loadConfigFile(cliConfig.configFile, call.file)
        ELSE EmptyObject

\* The configuration file of the call supplies a value for the token.
FileSupplies(key) ==
    IF call.module = "config" THEN key \in DOMAIN FileLoaded
    ELSE /\ "tokens" \in DOMAIN FileLoaded
         /\ AppTokenName(key) \in DOMAIN FileLoaded.tokens

FileValue(key) ==
    IF call.module = "config" THEN FileLoaded[key]
    ELSE FileLoaded.tokens[AppTokenName(key)]

\* The token by precedence: command line, then file, then environment.
ByPrecedence(key) ==
    LET cliConfig == parseArgs(call.args, 1, EmptyObject, call.module = "config")
    IN  IF key \in DOMAIN cliConfig THEN cliConfig[key]
        ELSE IF FileSupplies(key) THEN FileValue(key)
        ELSE envConfig(call.env)[key]

\* C18: getConfig, when it does not prompt, resolves each token by
\* precedence: the value of the command line when given, otherwise the
\* value of the configuration file named with --config, otherwise the value
\* of the environment variable.
C18_TokensByPrecedence ==
    (call.op = "getConfig" /\ ~call.prompted) =>
        \A key \in TokenKeys : Get(result, key) = ByPrecedence(key)

\* ------------------------------------------------------------------------
\* Properties of the boosted score, debugScore, overrides and the defaults
\* ------------------------------------------------------------------------

\* Every booster display combines is positive.
PositiveBoosters(boosters) ==
    \A m \in Metrics : Gt(finalBoosters(boosters)[m], N(0))

\* The boosters display combines, each multiplied by k.
ScaledBoosters(boosters, k) ==
    [given |-> TRUE,
     vals |-> [m \in Metrics |-> Mul(finalBoosters(boosters)[m], IntNum(k))]]

\* C23: with positive boosters every overall score display prints is
\* sum(booster * score) / sum(booster) over the seven metrics, lies in
\* [0,1], and is the same with every booster doubled.
C23_BoostedScoreIsWeightedMean ==
    (call.op = "display" /\ PositiveBoosters(call.boosters)) =>
        \A i \in DOMAIN report :
            LET sc == report[i].scores
                fb == finalBoosters(call.boosters)
                overall == report[i].overallScore
            IN  /\ overall =
                      Div(SumMetrics([m \in Metrics |-> Mul(fb[m], sc[m])],
                                     Len(MetricOrder)),
                          SumMetrics(fb, Len(MetricOrder)))
                /\ Geq(overall, N(0)) /\ Leq(overall, N(Unit))
                /\ overall =
                      calculateBoostedScore(sc, ScaledBoosters(call.boosters, 2))

C23_Witness ==
    /\ call.op = "display"
    /\ call.boosters.given
    /\ PositiveBoosters(call.boosters)
    /\ call.boosters.vals["vulnerability"] = N(500)
    /\ Len(report) = 2
    /\ Gt(report[1].overallScore, report[2].overallScore)
    /\ Gt(report[2].overallScore, N(0))

\* C25: what debugScore returns agrees with the calc functions: its
\* finalScore is calcFinalScore's result, each sub-score is what the calc
\* function of the metric returns, and each breakdown entry is the weight of
\* the metric times that sub-score.
C25_DebugScoreAgrees ==
    call.op = "debugScore" =>
        LET p == call.params
            c == call.config
            w == MergedConfig(c).weights
        IN  /\ result.finalScore = calcFinalScore(p, c)
            /\ result.lagScore = calcLagScore(p.current, p.latest, c)
            /\ result.vulnScore = calcVulnScore(p.severity, c)
            /\ result.communityScore =
                  calcCommunityScore(p.stars, p.openIssues, c)
            /\ result.activityScore = calcActivityScore(p.lastCommit, c)
            /\ result.breakdown.lag = Mul(w.lag, result.lagScore)
            /\ result.breakdown.vuln = Mul(w.vuln, result.vulnScore)
            /\ result.breakdown.health = Mul(w.health, result.communityScore)
            /\ result.breakdown.activity = Mul(w.activity, result.activityScore)

C25_Witness ==
    /\ call.op = "debugScore"
    /\ call.config.given
    /\ "weights" \in DOMAIN call.config.part
    /\ ConfigSeen # DefaultLiteral
    /\ result.finalScore.k = "num"
    /\ result.finalScore.v > 0 /\ result.finalScore.v < 100 * Unit

\* The configuration setScoringConfig(config) installs, read deeply.
Installed(config) ==
    [g \in Groups |-> IF g \in DOMAIN config THEN config[g] ELSE DefaultLiteral[g]]

\* What the scoring call c returns when it computes with the configuration
\* cfg.
ScoreUnder(c, cfg) ==
    LET given == [given |-> TRUE, part |-> cfg]
    IN  CASE c.op = "calcLagScore" -> calcLagScore(c.current, c.latest, given)
          [] c.op = "calcVulnScore" -> calcVulnScore(c.sev, given)
          [] c.op = "calcCommunityScore" ->
                calcCommunityScore(c.stars, c.openIssues, given)
          [] c.op = "calcActivityScore" -> calcActivityScore(c.lastCommit, given)
          [] c.op = "calcFinalScore" -> calcFinalScore(c.params, given)
          [] c.op = "debugScore" -> debugScore(c.params, given)

\* C26: setScoringConfig and resetScoringConfig install their
\* configuration, no other call changes the configuration, and a scoring
\* call without an override returns what the configuration of the moment of
\* the call gives: the one the most recent set or reset installed.
C26_ScoresFollowConfiguration ==
    [][/\ (call.op = "idle" /\ call'.op = "setScoringConfig") =>
              ConfigSeen' = Installed(call'.config)
       /\ (call.op = "idle" /\ call'.op = "resetScoringConfig") =>
              ConfigSeen' = DefaultLiteral
       /\ ConfigSeen' # ConfigSeen =>
              call'.op \in {"setScoringConfig", "resetScoringConfig"}
       /\ (call.op = "idle" /\ call'.op \in ScoringOps /\ ~call'.config.given) =>
              result' = ScoreUnder(call', ConfigSeen)]_vars

C26_Witness ==
    /\ call.op = "calcVulnScore"
    /\ ~call.config.given
    /\ ConfigSeen.penalties # DefaultPenalties
    /\ result.k = "num"
    /\ result # ScoreUnder(call, DefaultLiteral)

\* The override of a call merged field by field on top of the current
\* configuration.
MergedByField(config) ==
    [given |-> TRUE,
     part |-> [g \in Groups |->
                 [f \in Fields(g) |->
                     IF g \in DOMAIN config.part /\ config.part[g][f] # Undefined
                     THEN config.part[g][f]
                     ELSE ConfigSeen[g][f]]]]

\* C27: calcFinalScore and calcVulnScore, called with an override, return
\* what they return for the override merged field by field on top of the
\* current configuration: a field the override does not name keeps its
\* current value.
C27_OverrideMergedByField ==
    /\ (call.op = "calcFinalScore" /\ call.config.given) =>
          result = calcFinalScore(call.params, MergedByField(call.config))
    /\ (call.op = "calcVulnScore" /\ call.config.given) =>
          result = calcVulnScore(call.sev, MergedByField(call.config))

\* C30: DEFAULT_SCORING_CONFIG holds its initial weights, constants and
\* penalties in every reachable state.
C30_DefaultsNeverChange == Deep(DEFAULT_SCORING_CONFIG, heap) = DefaultLiteral

\* ------------------------------------------------------------------------
\* Properties of the seven metrics of a package
\* ------------------------------------------------------------------------

InUnitInterval(x) == Geq(x, N(0)) /\ Leq(x, IntNum(1))

\* C21: each of the seven sub-scores calculateAllScores gives for a
\* Package record built by buildPackageData lies in [0,1].
C21_SubScoresInUnitInterval ==
    call.op = "analyzePackage" =>
        \A m \in Metrics : InUnitInterval(result[m])

\* C24: the strict vulnerability score is 0 for a package with at least one
\* critical vulnerability, and 0 for a package with at least two high
\* ones.
C24_CriticalOrTwoHighScoreZero ==
    (/\ call.op = "analyzePackage"
     /\ \/ call.package.vulnerabilities.critical >= 1
        \/ call.package.vulnerabilities.high >= 2) =>
        result.vulnerability = N(0)

\* ------------------------------------------------------------------------
\* Properties of the configuration file and of a run of the command
\* ------------------------------------------------------------------------

\* C22: the boosters createConfigFile writes into a new configuration file
\* are, metric by metric, the boosters display applies when none are
\* supplied.
C22_SingleBoosterDefaults ==
    (call.op = "main" /\ call.pc = "exited" /\ call.written.kind = "json") =>
        \A m \in Metrics :
            Get(Get(call.written.value.entries, "boosters").entries, m)
                = finalBoosters(NoBoosters)[m]

\* Every booster the file names has a known metric name and a number
\* greater than 0 as its value.
BoostersAcceptable(file) ==
    /\ file.kind = "json"
    /\ file.value.k = "obj"
    /\ LET boosters == Get(file.value.entries, "boosters")
       IN  boosters.k = "obj" =>
              \A key \in DOMAIN boosters.entries :
                  /\ key \in Metrics
                  /\ boosters.entries[key].k \in {"num", "inf"}
                  /\ Gt(boosters.entries[key], N(0))

\* C28: a run given a configuration file goes on to the analysis and to
\* display only with a configuration loadConfig returned, and loadConfig
\* returns one only for a file that exists, is JSON, and names only known
\* boosters with numbers greater than 0; every booster display then
\* combines is positive.  A run given any other file exits with code 1
\* and displays nothing.
C28_OnlyAcceptableBoostersLoaded ==
    /\ (call.op = "main" /\ call.pc \in {"analyzing", "done"}
            /\ call.configFile # JsonNull) =>
          /\ BoostersAcceptable(call.configFile)
          /\ call.config = call.configFile.value
          /\ PositiveBoosters(boostersOf(call.config))
    /\ (call.op = "main" /\ call.pc = "exited" /\ call.configFile # JsonNull
            /\ ~BoostersAcceptable(call.configFile)) =>
          call.code = 1 /\ report = <<>>
    /\ (call.op = "main" /\ call.pc = "done") =>
          report = tableData([i \in DOMAIN result |-> result[i].scores],
                             boostersOf(call.config))

C28_Witness ==
    /\ call.op = "main" /\ call.pc = "done"
    /\ call.configFile # JsonNull
    /\ Get(call.config.entries, "boosters").k = "obj"
    /\ boostersOf(call.config).vals["vulnerability"] = N(500)
    /\ Len(report) = 2

\* The packages of a finished run whose task returned an entry.
Analysed(tasks) == {i \in DOMAIN tasks : tasks[i].log = ""}

\* How far the tasks of a run have come: the stages they have passed.
Stage(task) ==
    CASE task.st = "queued" -> 0
      [] task.st = "fetching" -> 1
      [] task.st = "building" -> 2
      [] task.st = "settled" -> 3
Progress(tasks) ==
    Cardinality({p \in (DOMAIN tasks) \X (1..3) : p[2] <= Stage(tasks[p[1]])})

\* Some task can take a step, or all have settled and main can go on.
CanProceed(tasks) ==
    \/ Running(tasks) # {}
    \/ /\ \E i \in DOMAIN tasks : tasks[i].st = "queued"
       /\ Cardinality(Running(tasks)) < PoolWidth
    \/ \A i \in DOMAIN tasks : tasks[i].st = "settled"

\* C29: in a run of analyzeDependencies, for every interleaving of the
\* tasks in the pool, a failing task (npm info that cannot be fetched, or
\* an exception) never ends the run; the run always completes: it can
\* always take a step, every step brings a task a stage further or ends
\* the run with its list; and that list holds exactly one entry for each
\* package whose task did not fail and none for the others.
C29_FailuresStayInTheirTask ==
    /\ []((call.op = "main" /\ call.pc = "done") =>
            /\ Len(result) = Cardinality(Analysed(call.tasks))
            /\ \A i \in DOMAIN call.tasks :
                  Cardinality({j \in DOMAIN result : result[j].name = i})
                      = IF i \in Analysed(call.tasks) THEN 1 ELSE 0)
    /\ []((call.op = "main" /\ call.pc = "analyzing") =>
            CanProceed(call.tasks))
    /\ [][(call.op = "main" /\ call.pc = "analyzing") =>
             /\ call'.op = "main"
             /\ \/ /\ call'.pc = "analyzing"
                   /\ Progress(call'.tasks) > Progress(call.tasks)
                \/ /\ call'.pc = "done"
                   /\ call'.tasks = call.tasks
                   /\ \A i \in DOMAIN call.tasks :
                         call.tasks[i].st = "settled"]_vars

C29_Witness ==
    /\ call.op = "main" /\ call.pc = "done"
    /\ Len(call.tasks) = MaxPackages
    /\ \E i, j, k \in DOMAIN call.tasks :
          /\ call.tasks[i].log = "Could not fetch info"
          /\ call.tasks[j].log = "Error analyzing"
          /\ call.tasks[k].log = ""
          /\ i < k
    /\ Len(result) = 1

====
